---- MODULE Spec2Model ----
(***************************************************************************)
(* A model of flashcards-cli (src/src/main.rs): the FlashcardDeck          *)
(* aggregate, its JSON persistence, and the interactive quiz of the CLI.   *)
(*                                                                         *)
(* Two specifications share the state:                                     *)
(*   Spec     the pub methods of FlashcardDeck called in any order on one  *)
(*            in-memory deck, with one deck file;                          *)
(*   SpecCli  the runs of the flashcard binary (main), one command per     *)
(*            run, the quiz command stepping through run_quiz.             *)
(***************************************************************************)
EXTENDS Integers, Sequences, FiniteSets, TLC

(***************************************************************************)
(* Bounds of the model.                                                    *)
(***************************************************************************)
\* add_card is not called once next_id has reached MaxNextId
MaxNextId == 3
\* no rating is recorded once the times_reviewed of the deck's cards sum to
\* MaxReviews
MaxReviews == 2

(***************************************************************************)
(* Program constants and input alphabets.                                  *)
(***************************************************************************)
\* enum Difficulty, by discriminant
Easy == 0
Medium == 1
Hard == 2
Difficulty == {Easy, Medium, Hard}

\* Option<T>
None == <<>>
Some(x) == <<x>>

Questions == {"2+2?"}
Answers == {"4"}

\* the values chrono::Utc::now().format("%Y-%m-%d").to_string() can take
Dates == {"2026-11-05", "2026-11-06"}

VARIABLES
    deck,       \* the FlashcardDeck in memory: [cards, next_id]
    file,       \* the deck file: None, or Some(JSON document)
    last,       \* the last call on the deck: [op, args, ret]
    add_calls,  \* number of add_card calls on this deck instance
    ever_ids,   \* every id that has been in cards of this deck instance
    run         \* the run of the binary in progress (SpecCli)

vars == <<deck, file, last, add_calls, ever_ids, run>>

(***************************************************************************)
(* CardMetadata, Flashcard, FlashcardDeck                                  *)
(***************************************************************************)
CardMetadata_default ==
    [difficulty |-> Medium, times_reviewed |-> 0, correct_count |-> 0,
     last_reviewed |-> None]

\* HashMap::new()
EmptyMap == [i \in {} |-> CardMetadata_default]

\* HashMap::insert
MapInsert(m, k, v) == [i \in (DOMAIN m) \cup {k} |-> IF i = k THEN v ELSE m[i]]

\* HashMap::remove
MapRemove(m, k) == [i \in (DOMAIN m) \ {k} |-> m[i]]

\* u32 `+= 1`: the bounds keep every counter far below 2^32, where the
\* addition is exact
U32Add(x, y) == x + y

new == [cards |-> EmptyMap, next_id |-> 1]

\* add_card taking the id from the number of cards instead of next_id
add_card_by_len(d, question, answer) ==
    LET id == Cardinality(DOMAIN d.cards) + 1
        card == [id |-> id, question |-> question, answer |-> answer,
                 metadata |-> CardMetadata_default]
    IN  [deck |-> [cards |-> MapInsert(d.cards, id, card), next_id |-> id + 1],
         ret |-> id]

\* add_card inserting the card after the increment, under the new next_id
add_card_key_after_increment(d, question, answer) ==
    LET card == [id |-> d.next_id, question |-> question, answer |-> answer,
                 metadata |-> CardMetadata_default]
        next_id == U32Add(d.next_id, 1)
    IN  [deck |-> [cards |-> MapInsert(d.cards, next_id, card), next_id |-> next_id],
         ret |-> card.id]

\* the deck after add_card, and the id it returns
add_card(d, question, answer) ==
    LET card == [id |-> d.next_id, question |-> question, answer |-> answer,
                 metadata |-> CardMetadata_default]
        id == card.id
    IN  [deck |-> [cards |-> MapInsert(d.cards, id, card),
                   next_id |-> U32Add(d.next_id, 1)],
         ret |-> id]

\* update_card_difficulty counting the review only when it was correct
update_card_difficulty_skip_wrong(d, card_id, difficulty, correct, now) ==
    IF card_id \in DOMAIN d.cards
    THEN LET m == d.cards[card_id].metadata
             m2 == [difficulty |-> difficulty,
                    times_reviewed |-> IF correct THEN U32Add(m.times_reviewed, 1)
                                                  ELSE m.times_reviewed,
                    correct_count |-> IF correct THEN U32Add(m.correct_count, 1)
                                                 ELSE m.correct_count,
                    last_reviewed |-> Some(now)]
         IN  [d EXCEPT !.cards[card_id].metadata = m2]
    ELSE d

\* update_card_difficulty taking a correct answer back on a wrong one
update_card_difficulty_penalise_wrong(d, card_id, difficulty, correct, now) ==
    IF card_id \in DOMAIN d.cards
    THEN LET m == d.cards[card_id].metadata
             m2 == [difficulty |-> difficulty,
                    times_reviewed |-> U32Add(m.times_reviewed, 1),
                    correct_count |-> IF correct THEN U32Add(m.correct_count, 1)
                                      ELSE IF m.correct_count > 0
                                           THEN m.correct_count - 1 ELSE 0,
                    last_reviewed |-> Some(now)]
         IN  [d EXCEPT !.cards[card_id].metadata = m2]
    ELSE d

\* update_card_difficulty creating the card when the id is absent
update_card_difficulty_or_insert(d, card_id, difficulty, correct, now) ==
    LET m == IF card_id \in DOMAIN d.cards THEN d.cards[card_id].metadata
                                            ELSE CardMetadata_default
        m2 == [difficulty |-> difficulty,
               times_reviewed |-> U32Add(m.times_reviewed, 1),
               correct_count |-> IF correct THEN U32Add(m.correct_count, 1)
                                            ELSE m.correct_count,
               last_reviewed |-> Some(now)]
    IN  [d EXCEPT !.cards = MapInsert(d.cards, card_id,
                                [id |-> card_id, question |-> "", answer |-> "",
                                 metadata |-> m2])]

\* the deck after update_card_difficulty at date string now
update_card_difficulty(d, card_id, difficulty, correct, now) ==
    IF card_id \in DOMAIN d.cards
    THEN LET m == d.cards[card_id].metadata
             m2 == [difficulty |-> difficulty,
                    times_reviewed |-> U32Add(m.times_reviewed, 1),
                    correct_count |-> IF correct THEN U32Add(m.correct_count, 1)
                                                 ELSE m.correct_count,
                    last_reviewed |-> Some(now)]
         IN  [d EXCEPT !.cards[card_id].metadata = m2]
    ELSE d

\* delete_card giving the id back when the newest card is deleted
delete_card_reuse(d, card_id) ==
    [deck |-> [cards |-> MapRemove(d.cards, card_id),
               next_id |-> IF card_id \in DOMAIN d.cards /\ card_id + 1 = d.next_id
                           THEN card_id ELSE d.next_id],
     ret |-> card_id \in DOMAIN d.cards]

\* delete_card reporting success whether or not the id was there
delete_card_always_true(d, card_id) ==
    [deck |-> [d EXCEPT !.cards = MapRemove(d.cards, card_id)],
     ret |-> TRUE]

\* the deck after delete_card, and the bool it returns
delete_card(d, card_id) ==
    [deck |-> [d EXCEPT !.cards = MapRemove(d.cards, card_id)],
     ret |-> card_id \in DOMAIN d.cards]

\* reset_all_stats clearing times_reviewed and last_reviewed only
reset_all_stats_keep_correct(d) ==
    [d EXCEPT !.cards = [i \in DOMAIN d.cards |->
        [d.cards[i] EXCEPT !.metadata.times_reviewed = 0,
                           !.metadata.last_reviewed = None]]]

\* reset_all_stats clearing the counters and the difficulty but not the date
reset_all_stats_keep_last_reviewed(d) ==
    [d EXCEPT !.cards = [i \in DOMAIN d.cards |->
        [d.cards[i] EXCEPT !.metadata.difficulty = Medium,
                           !.metadata.times_reviewed = 0,
                           !.metadata.correct_count = 0]]]

\* reset_all_stats leaving the difficulty as it is
reset_all_stats_keep_difficulty(d) ==
    [d EXCEPT !.cards = [i \in DOMAIN d.cards |->
        [d.cards[i] EXCEPT !.metadata.times_reviewed = 0,
                           !.metadata.correct_count = 0,
                           !.metadata.last_reviewed = None]]]

\* the deck after reset_all_stats
reset_all_stats(d) ==
    [d EXCEPT !.cards = [i \in DOMAIN d.cards |->
                            [d.cards[i] EXCEPT !.metadata = CardMetadata_default]]]

(***************************************************************************)
(* get_random_cards_ids: the keys in the map's iteration order, shuffled   *)
(***************************************************************************)
RECURSIVE Enumerations(_)
\* cards.keys().copied().collect(): the keys in any iteration order
Enumerations(S) ==
    IF S = {} THEN {<<>>}
    ELSE UNION {{<<x>> \o t : t \in Enumerations(S \ {x})} : x \in S}

\* slice::swap
Swap(v, i, j) == [v EXCEPT ![i] = v[j], ![j] = v[i]]

RECURSIVE ShuffleFrom(_, _)
\* the outcomes of the swaps of shuffle from position i on: swap(i, j), j <= i
ShuffleFrom(v, i) ==
    IF i > Len(v) THEN {v}
    ELSE UNION {ShuffleFrom(Swap(v, i, j), i + 1) : j \in 1..i}

\* SliceRandom::shuffle, every outcome
shuffle(v) == ShuffleFrom(v, 1)

\* get_random_cards_ids shuffling the ids 1..next_id-1 instead of the keys
get_random_cards_ids_all_issued(d) ==
    UNION {shuffle(cards_ids) : cards_ids \in Enumerations(1..(d.next_id - 1))}

\* every Vec get_random_cards_ids can return
get_random_cards_ids(d) ==
    UNION {shuffle(cards_ids) : cards_ids \in Enumerations(DOMAIN d.cards)}

(***************************************************************************)
(* serde_json: the document save_to_file writes and load_from_file reads.  *)
(* A JSON object with computed keys is a set of <<key, value>> members, a  *)
(* key the decimal text of the id; the unit variants of Difficulty are     *)
(* JSON strings; Option<String> is null or a JSON string.                  *)
(***************************************************************************)
DigitChars == <<"0", "1", "2", "3", "4", "5", "6", "7", "8", "9">>

RECURSIVE u32_to_string(_)
\* u32 -> decimal text, a sequence of digit characters
u32_to_string(n) ==
    IF n < 10 THEN <<DigitChars[n + 1]>>
    ELSE u32_to_string(n \div 10) \o <<DigitChars[(n % 10) + 1]>>

DigitOf(c) == CHOOSE k \in 0..9 : DigitChars[k + 1] = c

RECURSIVE ParseU32(_)
\* decimal text -> u32 (the text save_to_file wrote: digits, in range)
ParseU32(s) ==
    IF Len(s) = 1 THEN DigitOf(s[1])
    ELSE 10 * ParseU32(SubSeq(s, 1, Len(s) - 1)) + DigitOf(s[Len(s)])

JsonNull == <<"null", "">>
JsonString(s) == <<"string", s>>

DifficultyToJson(d) ==
    CASE d = Easy -> JsonString("Easy")
      [] d = Medium -> JsonString("Medium")
      [] d = Hard -> JsonString("Hard")

JsonToDifficulty(j) ==
    CASE j = JsonString("Easy") -> Easy
      [] j = JsonString("Medium") -> Medium
      [] j = JsonString("Hard") -> Hard

OptionToJson(o) == IF o = None THEN JsonNull ELSE JsonString(o[1])

JsonToOption(j) == IF j = JsonNull THEN None ELSE Some(j[2])

CardMetadataToJson(m) ==
    [difficulty |-> DifficultyToJson(m.difficulty),
     times_reviewed |-> m.times_reviewed,
     correct_count |-> m.correct_count,
     last_reviewed |-> OptionToJson(m.last_reviewed)]

JsonToCardMetadata(j) ==
    [difficulty |-> JsonToDifficulty(j.difficulty),
     times_reviewed |-> j.times_reviewed,
     correct_count |-> j.correct_count,
     last_reviewed |-> JsonToOption(j.last_reviewed)]

FlashcardToJson(c) ==
    [id |-> c.id, question |-> JsonString(c.question),
     answer |-> JsonString(c.answer),
     metadata |-> CardMetadataToJson(c.metadata)]

JsonToFlashcard(j) ==
    [id |-> j.id, question |-> j.question[2], answer |-> j.answer[2],
     metadata |-> JsonToCardMetadata(j.metadata)]

\* to_string_pretty with last_reviewed left out of the document (written null)
to_string_pretty_skip_last_reviewed(d) ==
    [cards |-> {<<u32_to_string(i),
                  [FlashcardToJson(d.cards[i]) EXCEPT !.metadata.last_reviewed = JsonNull]>> :
                    i \in DOMAIN d.cards},
     next_id |-> d.next_id]

\* serde_json::to_string_pretty(self)
to_string_pretty(d) ==
    [cards |-> {<<u32_to_string(i), FlashcardToJson(d.cards[i])>> : i \in DOMAIN d.cards},
     next_id |-> d.next_id]

\* serde_json::from_str(&file_content)
from_str(doc) ==
    [cards |-> [k \in {ParseU32(m[1]) : m \in doc.cards} |->
                   JsonToFlashcard((CHOOSE m \in doc.cards : ParseU32(m[1]) = k)[2])],
     next_id |-> doc.next_id]

(***************************************************************************)
(* Spec: the in-memory methods of FlashcardDeck, called in any order on a  *)
(* deck that starts from new()                                             *)
(***************************************************************************)
Ids == 1..MaxNextId

\* a call on the deck: the method, its arguments, and what it returned (id for
\* add_card, removed for delete_card, cards_ids for get_random_cards_ids)
NoCall ==
    [op |-> "new", question |-> "", answer |-> "", card_id |-> 0,
     difficulty |-> Medium, correct |-> FALSE, now |-> "",
     id |-> 0, removed |-> FALSE, cards_ids |-> <<>>]

RECURSIVE SumReviewed(_, _)
SumReviewed(cards, S) ==
    IF S = {} THEN 0
    ELSE LET i == CHOOSE x \in S : TRUE
         IN  cards[i].metadata.times_reviewed + SumReviewed(cards, S \ {i})

\* the ratings recorded in the deck
TotalReviews(d) == SumReviewed(d.cards, DOMAIN d.cards)

\* a run of the binary: where it is (pc), its command, the locals of run_quiz
\* (cards, quiz_count, correct_count, input), the summary printed, the
\* message printed, and the number of save_to_file calls so far.
\* NoRun: no run in progress
NoRun ==
    [pc |-> "exit", command |-> "", cards |-> <<>>, quiz_count |-> 0,
     correct_count |-> 0, input |-> <<>>, summary |-> None, message |-> "",
     saves |-> 0]

Init ==
    /\ deck = new
    /\ file = None
    /\ last = NoCall
    /\ add_calls = 0
    /\ ever_ids = {}
    /\ run = NoRun

AddCard(question, answer) ==
    /\ deck.next_id < MaxNextId
    /\ LET r == add_card(deck, question, answer)
       IN  /\ deck' = r.deck
           /\ last' = [NoCall EXCEPT !.op = "add_card", !.question = question,
                                    !.answer = answer, !.id = r.ret]
           /\ ever_ids' = ever_ids \cup DOMAIN r.deck.cards
    /\ add_calls' = add_calls + 1
    /\ UNCHANGED <<file, run>>

UpdateCardDifficulty(card_id, difficulty, correct, now) ==
    /\ card_id \in DOMAIN deck.cards => TotalReviews(deck) < MaxReviews
    /\ deck' = update_card_difficulty(deck, card_id, difficulty, correct, now)
    /\ last' = [NoCall EXCEPT !.op = "update_card_difficulty",
                             !.card_id = card_id, !.difficulty = difficulty,
                             !.correct = correct, !.now = now]
    /\ UNCHANGED <<file, add_calls, ever_ids, run>>

DeleteCard(card_id) ==
    /\ LET r == delete_card(deck, card_id)
       IN  /\ deck' = r.deck
           /\ last' = [NoCall EXCEPT !.op = "delete_card", !.card_id = card_id,
                                    !.removed = r.ret]
    /\ UNCHANGED <<file, add_calls, ever_ids, run>>

ResetAllStats ==
    /\ deck' = reset_all_stats(deck)
    /\ last' = [NoCall EXCEPT !.op = "reset_all_stats"]
    /\ UNCHANGED <<file, add_calls, ever_ids, run>>

GetRandomCardsIds ==
    /\ \E cards_ids \in get_random_cards_ids(deck) :
          last' = [NoCall EXCEPT !.op = "get_random_cards_ids",
                                   !.cards_ids = cards_ids]
    /\ UNCHANGED <<deck, file, add_calls, ever_ids, run>>

Next ==
    \/ \E question \in Questions, answer \in Answers : AddCard(question, answer)
    \/ \E card_id \in Ids, difficulty \in Difficulty, correct \in BOOLEAN,
          now \in Dates :
          UpdateCardDifficulty(card_id, difficulty, correct, now)
    \/ \E card_id \in Ids : DeleteCard(card_id)
    \/ ResetAllStats
    \/ GetRandomCardsIds

Spec == Init /\ [][Next]_vars

(***************************************************************************)
(* SpecCli: the runs of the binary. main loads the deck file (or builds a  *)
(* new deck when there is no file), runs one command on the deck and, for  *)
(* a command that changed it, saves it. A line read from stdin is a        *)
(* sequence of characters; the file system accepts every write.            *)
(***************************************************************************)
Whitespace == {" ", "\n", "\t", "\r"}

RECURSIVE trim_start(_)
trim_start(s) ==
    IF s # <<>> /\ Head(s) \in Whitespace THEN trim_start(Tail(s)) ELSE s

RECURSIVE trim_end(_)
trim_end(s) ==
    IF s # <<>> /\ s[Len(s)] \in Whitespace
    THEN trim_end(SubSeq(s, 1, Len(s) - 1)) ELSE s

\* str::trim
\* a match on the line as read, with its line end
trim_nothing(s) == s

trim(s) == trim_end(trim_start(s))

UpperChars == <<"C", "G", "W", "Q", "Y", "N", "X">>
LowerChars == <<"c", "g", "w", "q", "y", "n", "x">>

\* str::to_lowercase
to_lowercase(s) ==
    [k \in 1..Len(s) |->
        IF \E u \in 1..Len(UpperChars) : UpperChars[u] = s[k]
        THEN LowerChars[CHOOSE u \in 1..Len(UpperChars) : UpperChars[u] = s[k]]
        ELSE s[k]]

\* the lines stdin gives at the rating prompt (<<>>: end of input)
RatingLines ==
    {<<"c", "\n">>, <<"G", "\n">>, <<" ", "w", " ", "\n">>, <<"q", "\n">>,
     <<"x", "\n">>, <<>>}

\* the lines stdin gives at the reveal prompt
RevealLines == {<<"\n">>}

\* the lines stdin gives at the confirmation prompt of reset
ConfirmLines == {<<"y", "\n">>, <<"Y", "\n">>, <<"n", "\n">>, <<"\n">>}

\* "{:.1}" of (correct / total) * 100.0, in tenths of a percent
PercentTenths(total, correct) ==
    IF total > 0 THEN (2000 * correct + total) \div (2 * total) ELSE 0

\* what print_quiz_summary prints
print_quiz_summary(total, correct) ==
    [total |-> total, correct |-> correct, percent |-> PercentTenths(total, correct)]

\* a run that has loaded its deck and is about to execute its command
NewRun(command) == [NoRun EXCEPT !.pc = "loaded", !.command = command]

InitCli ==
    /\ deck = new
    /\ file = None
    /\ last = NoCall
    /\ add_calls = 0
    /\ ever_ids = {}
    /\ run = NoRun

\* main, lines 155-162: a run starts and loads the deck file, or builds a new
\* deck when the file does not exist
Start(command) ==
    /\ run.pc = "exit"
    /\ deck' = IF file # None THEN from_str(file[1]) ELSE new
    /\ last' = [NoCall EXCEPT !.op = IF file # None THEN "load_from_file" ELSE "new"]
    /\ add_calls' = 0
    /\ ever_ids' = DOMAIN deck'.cards
    /\ run' = NewRun(command)
    /\ UNCHANGED file

\* Commands::Add
CmdAdd(question, answer) ==
    /\ run.pc = "loaded" /\ run.command = "add"
    /\ deck.next_id < MaxNextId
    /\ LET r == add_card(deck, question, answer)
       IN  /\ deck' = r.deck
           /\ last' = [NoCall EXCEPT !.op = "add_card", !.question = question,
                                    !.answer = answer, !.id = r.ret]
           /\ ever_ids' = ever_ids \cup DOMAIN r.deck.cards
           /\ file' = Some(to_string_pretty(r.deck))
    /\ add_calls' = add_calls + 1
    /\ run' = [run EXCEPT !.pc = "exit", !.message = "Added flashcard",
                          !.saves = @ + 1]

\* Commands::Delete
CmdDelete(id) ==
    /\ run.pc = "loaded" /\ run.command = "delete"
    /\ LET r == delete_card(deck, id)
       IN  /\ deck' = r.deck
           /\ last' = [NoCall EXCEPT !.op = "delete_card", !.card_id = id,
                                    !.removed = r.ret]
           /\ IF r.ret
              THEN /\ file' = Some(to_string_pretty(r.deck))
                   /\ run' = [run EXCEPT !.pc = "exit", !.saves = @ + 1,
                                         !.message = "Deleted flashcard"]
              ELSE /\ file' = file
                   /\ run' = [run EXCEPT !.pc = "exit",
                                         !.message = "Flashcard not found"]
    /\ UNCHANGED <<add_calls, ever_ids>>

\* Commands::Reset on an empty deck
CmdResetEmpty ==
    /\ run.pc = "loaded" /\ run.command = "reset"
    /\ DOMAIN deck.cards = {}
    /\ run' = [run EXCEPT !.pc = "exit", !.message = "No flashcards to reset"]
    /\ UNCHANGED <<deck, file, last, add_calls, ever_ids>>

\* Commands::Reset on a deck with cards: the answer to the prompt decides
CmdReset(line) ==
    /\ run.pc = "loaded" /\ run.command = "reset"
    /\ DOMAIN deck.cards # {}
    /\ IF to_lowercase(trim(line)) = <<"y">>
       THEN /\ deck' = reset_all_stats(deck)
            /\ last' = [NoCall EXCEPT !.op = "reset_all_stats"]
            /\ file' = Some(to_string_pretty(deck'))
            /\ run' = [run EXCEPT !.pc = "exit", !.input = line, !.saves = @ + 1,
                                  !.message = "Reset all flashcard statistics"]
       ELSE /\ run' = [run EXCEPT !.pc = "exit", !.input = line,
                                  !.message = "Reset cancelled"]
            /\ UNCHANGED <<deck, file, last>>
    /\ UNCHANGED <<add_calls, ever_ids>>

\* Commands::Quiz calling run_quiz without the is_empty test
CmdQuizEmpty_runs_quiz ==
    /\ run.pc = "loaded" /\ run.command = "quiz"
    /\ DOMAIN deck.cards = {}
    /\ run' = [run EXCEPT !.pc = "returned",
                          !.summary = Some([total |-> 0, correct |-> 0, percent |-> 0])]
    /\ UNCHANGED <<deck, file, last, add_calls, ever_ids>>

\* Commands::Quiz on an empty deck
CmdQuizEmpty ==
    /\ run.pc = "loaded" /\ run.command = "quiz"
    /\ DOMAIN deck.cards = {}
    /\ run' = [run EXCEPT !.pc = "exit", !.message = "No flashcards to quiz"]
    /\ UNCHANGED <<deck, file, last, add_calls, ever_ids>>

\* run_quiz, lines 311-329: the order is drawn and the first card presented
QuizStart ==
    /\ run.pc = "loaded" /\ run.command = "quiz"
    /\ DOMAIN deck.cards # {}
    /\ \E cards \in get_random_cards_ids(deck) :
          /\ last' = [NoCall EXCEPT !.op = "get_random_cards_ids",
                                   !.cards_ids = cards]
          /\ run' = [run EXCEPT !.pc = "reveal", !.cards = cards, !.quiz_count = 1]
    /\ UNCHANGED <<deck, file, add_calls, ever_ids>>

\* run_quiz, lines 331-335: a line is read and the answer shown
QuizReveal(line) ==
    /\ run.pc = "reveal"
    /\ run' = [run EXCEPT !.pc = "rate", !.input = line]
    /\ UNCHANGED <<deck, file, last, add_calls, ever_ids>>

\* the for loop of run_quiz leaving out the last id of the order
AfterRating_stops_early(r) ==
    IF r.quiz_count + 1 < Len(r.cards)
    THEN [r EXCEPT !.pc = "reveal", !.quiz_count = @ + 1]
    ELSE [r EXCEPT !.pc = "returned",
                   !.summary = Some(print_quiz_summary(r.quiz_count, r.correct_count))]

\* the end of a pass of the for loop of run_quiz after a rating: the next
\* card is presented, or the summary printed and run_quiz returns
AfterRating(r) ==
    IF r.quiz_count < Len(r.cards)
    THEN [r EXCEPT !.pc = "reveal", !.quiz_count = @ + 1]
    ELSE [r EXCEPT !.pc = "returned",
                   !.summary = Some(print_quiz_summary(r.quiz_count, r.correct_count))]

\* the summary of a session ended by q, counting the card q was entered on
QuitSummary_counting_aborted(r) == print_quiz_summary(r.quiz_count, r.correct_count)

\* run_quiz, line 364: the summary of a session ended by q
QuitSummary(r) == print_quiz_summary(r.quiz_count - 1, r.correct_count)

\* the rating g recorded as not correct
RatingOf_g_not_correct(key) ==
    CASE key = <<"c">> -> <<Easy, TRUE>>
      [] key = <<"g">> -> <<Medium, FALSE>>
      [] key = <<"w">> -> <<Hard, FALSE>>

\* the arguments of update_card_difficulty for a rating: <<difficulty, correct>>
RatingOf(key) ==
    CASE key = <<"c">> -> <<Easy, TRUE>>
      [] key = <<"g">> -> <<Medium, TRUE>>
      [] key = <<"w">> -> <<Hard, FALSE>>

\* a rating arm adding to the session's correct_count whatever the rating
CountsAsCorrect_every_rating(key) == key \in {<<"c">>, <<"g">>, <<"w">>}

\* run_quiz, lines 347 and 353: the arms with `correct_count += 1`
CountsAsCorrect(key) == key \in {<<"c">>, <<"g">>}

\* the `_` arm leaving the rating loop as a rating does
InvalidRating_consumes_turn(r, line) == AfterRating([r EXCEPT !.input = line])

\* run_quiz, lines 367-370: the `_` arm prints the usage and prompts again
InvalidRating(r, line) == [r EXCEPT !.input = line]

\* run_quiz, lines 337-372: a line is read at the rating prompt
QuizRate(line, now) ==
    /\ run.pc = "rate"
    /\ LET key == to_lowercase(trim(line))
           card_id == run.cards[run.quiz_count]
       IN  IF key \in {<<"c">>, <<"g">>, <<"w">>}
           THEN /\ TotalReviews(deck) < MaxReviews
                /\ deck' = update_card_difficulty(deck, card_id, RatingOf(key)[1],
                                                  RatingOf(key)[2], now)
                /\ last' = [NoCall EXCEPT !.op = "update_card_difficulty",
                               !.card_id = card_id, !.difficulty = RatingOf(key)[1],
                               !.correct = RatingOf(key)[2], !.now = now]
                /\ run' = AfterRating(
                             [run EXCEPT !.input = line,
                                 !.correct_count =
                                     IF CountsAsCorrect(key) THEN @ + 1 ELSE @])
           ELSE IF key = <<"q">>
           THEN /\ run' = [run EXCEPT !.pc = "returned", !.input = line,
                              !.summary = Some(QuitSummary(run))]
                /\ UNCHANGED <<deck, last>>
           ELSE /\ run' = InvalidRating(run, line)
                /\ UNCHANGED <<deck, last>>
    /\ UNCHANGED <<file, add_calls, ever_ids>>

\* main saving after run_quiz only when the session was not ended by q
QuizSave_not_after_quit ==
    /\ run.pc = "returned"
    /\ IF to_lowercase(trim(run.input)) = <<"q">>
       THEN /\ file' = file
            /\ run' = [run EXCEPT !.pc = "exit"]
       ELSE /\ file' = Some(to_string_pretty(deck))
            /\ run' = [run EXCEPT !.pc = "exit", !.saves = @ + 1]
    /\ UNCHANGED <<deck, last, add_calls, ever_ids>>

\* main, line 239: run_quiz has returned Ok and the deck is saved
QuizSave ==
    /\ run.pc = "returned"
    /\ file' = Some(to_string_pretty(deck))
    /\ run' = [run EXCEPT !.pc = "exit", !.saves = @ + 1]
    /\ UNCHANGED <<deck, last, add_calls, ever_ids>>

NextCli ==
    \/ \E command \in {"add", "delete", "reset", "quiz"} : Start(command)
    \/ \E question \in Questions, answer \in Answers : CmdAdd(question, answer)
    \/ \E id \in Ids : CmdDelete(id)
    \/ CmdResetEmpty
    \/ \E line \in ConfirmLines : CmdReset(line)
    \/ CmdQuizEmpty
    \/ QuizStart
    \/ \E line \in RevealLines : QuizReveal(line)
    \/ \E line \in RatingLines, now \in Dates : QuizRate(line, now)
    \/ QuizSave

SpecCli == InitCli /\ [][NextCli]_vars

\* the lines the match of run_quiz takes as one of c, g, w, q
ValidLines ==
    {line \in RatingLines :
        to_lowercase(trim(line)) \in {<<"c">>, <<"g">>, <<"w">>, <<"q">>}}

\* read_line at the rating prompt returning one of those lines
ValidRate ==
    /\ run.pc = "rate"
    /\ \E line \in ValidLines, now \in Dates : QuizRate(line, now)

\* read_line at the rating prompt returning any other line, or end of input
StayInRating ==
    /\ run.pc = "rate"
    /\ \E line \in RatingLines \ ValidLines, now \in Dates : QuizRate(line, now)

\* the runs of main in which every reveal prompt receives a line and every
\* rating prompt eventually receives one of c, g, w, q
FairSpecCli ==
    /\ InitCli /\ [][NextCli]_vars
    /\ WF_vars(run.pc = "reveal" /\ \E line \in RevealLines : QuizReveal(line))
    /\ WF_vars(ValidRate)

(***************************************************************************)
(* Properties of the deck methods (Spec)                                   *)
(***************************************************************************)
Cards == DOMAIN deck.cards

\* C1: on a deck that starts from new(), under any interleaving of add_card
\* and delete_card (and the other methods), the k-th add_card call returns
\* id k: ids start at 1, grow by exactly 1 and never repeat.
C1_KthAddReturnsK ==
    last.op = "add_card" => last.id = add_calls

\* an add_card call after the first card was deleted: it returns 2, not 1
C1_Witness ==
    /\ last.op = "add_card"
    /\ add_calls = 2
    /\ Cards = {2}

\* C3: every card of every reachable deck has correct_count <= times_reviewed.
C3_CorrectAtMostReviewed ==
    \A i \in Cards :
        deck.cards[i].metadata.correct_count <= deck.cards[i].metadata.times_reviewed

\* a card rated twice, once correct and once wrong
C3_Witness ==
    \E i \in Cards :
        /\ deck.cards[i].metadata.times_reviewed = 2
        /\ deck.cards[i].metadata.correct_count = 1

\* C5: update_card_difficulty on a present id sets the difficulty, adds 1 to
\* times_reviewed, adds 1 to correct_count exactly when correct, sets
\* last_reviewed to the current date, and changes nothing else.
C5_UpdatePresent ==
    [][(last'.op = "update_card_difficulty" /\ last'.card_id \in Cards) =>
        LET id == last'.card_id
            old == deck.cards[id]
            upd == deck'.cards[id]
        IN  /\ deck'.next_id = deck.next_id
            /\ DOMAIN deck'.cards = Cards
            /\ \A i \in Cards \ {id} : deck'.cards[i] = deck.cards[i]
            /\ upd.id = old.id
            /\ upd.question = old.question
            /\ upd.answer = old.answer
            /\ upd.metadata.difficulty = last'.difficulty
            /\ upd.metadata.times_reviewed = old.metadata.times_reviewed + 1
            /\ upd.metadata.correct_count =
                  old.metadata.correct_count + (IF last'.correct THEN 1 ELSE 0)
            /\ upd.metadata.last_reviewed = Some(last'.now)]_vars

\* a second rating of a card, wrong after correct, on another date, with
\* another card in the deck
C5_Witness ==
    /\ last.op = "update_card_difficulty"
    /\ last.card_id \in Cards
    /\ Cardinality(Cards) = 2
    /\ last.correct = FALSE
    /\ LET m == deck.cards[last.card_id].metadata
       IN  /\ m.times_reviewed = 2
           /\ m.correct_count = 1
           /\ m.difficulty = Hard
           /\ m.last_reviewed = Some(last.now)

\* C6: update_card_difficulty on an id that is not in the deck (never
\* created, or deleted) leaves the deck unchanged; the method has no error
\* return.
C6_UpdateAbsent ==
    [][(last'.op = "update_card_difficulty" /\ last'.card_id \notin Cards) =>
        deck' = deck]_vars

\* an update of a deleted id, with a reviewed card left in the deck
C6_Witness ==
    /\ last.op = "update_card_difficulty"
    /\ last.card_id \notin Cards
    /\ last.card_id \in ever_ids
    /\ \E i \in Cards : deck.cards[i].metadata.times_reviewed > 0

\* C7: delete_card returns true exactly when the id was in the deck, and
\* then removes that card and no other; otherwise the deck is unchanged;
\* next_id is unchanged in both cases.
C7_Delete ==
    [][last'.op = "delete_card" =>
        LET id == last'.card_id
        IN  /\ last'.removed = (id \in Cards)
            /\ deck'.next_id = deck.next_id
            /\ DOMAIN deck'.cards = Cards \ {id}
            /\ \A i \in Cards \ {id} : deck'.cards[i] = deck.cards[i]
            /\ id \notin Cards => deck' = deck]_vars

\* the newest card deleted, an older one left
C7_Witness ==
    /\ last.op = "delete_card"
    /\ last.removed
    /\ last.card_id = 2
    /\ Cards = {1}
    /\ deck.next_id = 3

\* C8: reset_all_stats gives every card the default metadata (Medium, 0, 0,
\* no last_reviewed) and leaves id, question, answer, the set of ids and
\* next_id unchanged.
C8_Reset ==
    [][last'.op = "reset_all_stats" =>
        /\ deck'.next_id = deck.next_id
        /\ DOMAIN deck'.cards = Cards
        /\ \A i \in Cards :
              /\ deck'.cards[i].id = deck.cards[i].id
              /\ deck'.cards[i].question = deck.cards[i].question
              /\ deck'.cards[i].answer = deck.cards[i].answer
              /\ deck'.cards[i].metadata.difficulty = Medium
              /\ deck'.cards[i].metadata.times_reviewed = 0
              /\ deck'.cards[i].metadata.correct_count = 0
              /\ deck'.cards[i].metadata.last_reviewed = None]_vars

\* a reset of a deck of two cards
C8_Witness ==
    /\ last.op = "reset_all_stats"
    /\ Cardinality(Cards) = 2
    /\ \A i \in Cards : deck.cards[i].metadata = CardMetadata_default

\* C9: get_random_cards_ids returns, for every outcome of the shuffle, a
\* sequence as long as the deck that holds every id of the deck exactly once
\* and no other id, and leaves the deck unchanged.
C9_RandomOrder ==
    [][last'.op = "get_random_cards_ids" =>
        LET v == last'.cards_ids
        IN  /\ Len(v) = Cardinality(Cards)
            /\ {v[k] : k \in 1..Len(v)} = Cards
            /\ \A j, k \in 1..Len(v) : v[j] = v[k] => j = k
            /\ deck' = deck]_vars

\* an order of two cards that is not the ascending one
C9_Witness ==
    /\ last.op = "get_random_cards_ids"
    /\ Len(last.cards_ids) = 2
    /\ last.cards_ids[1] > last.cards_ids[2]

(***************************************************************************)
(* Properties of the runs of the binary (SpecCli)                          *)
(***************************************************************************)
RECURSIVE SumCorrect(_, _)
SumCorrect(cards, S) ==
    IF S = {} THEN 0
    ELSE LET i == CHOOSE x \in S : TRUE
         IN  cards[i].metadata.correct_count + SumCorrect(cards, S \ {i})

\* the correct ratings recorded in the deck
TotalCorrect(d) == SumCorrect(d.cards, DOMAIN d.cards)

\* the rating key of the line read last
Key == to_lowercase(trim(run.input))

\* C2: in every state of a deck instance (built by new() or by
\* load_from_file, then changed by add_card, delete_card,
\* update_card_difficulty, reset_all_stats, and saved), next_id is greater
\* than every id that is or ever was in cards of the instance, and next_id
\* never decreases while the instance lives.
C2_NextIdAboveEveryId ==
    /\ [](\A i \in ever_ids : i < deck.next_id)
    /\ [][run'.pc # "loaded" => deck'.next_id >= deck.next_id]_vars

\* a loaded deck whose newest card was deleted in this run
C2_Witness ==
    /\ run.pc = "exit"
    /\ last.op = "delete_card" /\ last.removed
    /\ ever_ids = {1, 2}
    /\ Cards = {1}
    /\ deck.next_id = 3

\* C4: a deck that a run saved is, field by field, the deck the next run
\* loads: the same ids, the same id, question, answer and metadata of each
\* card, the same next_id.
C4_RoundTrip ==
    [][(run.pc = "exit" /\ run.saves > 0 /\ run'.pc = "loaded") => deck' = deck]_vars

\* a loaded deck with next_id ahead of its ids and a card rated twice
C4_Witness ==
    /\ run.pc = "loaded"
    /\ last.op = "load_from_file"
    /\ Cards = {2}
    /\ deck.next_id = 3
    /\ deck.cards[2].metadata.times_reviewed = 2
    /\ deck.cards[2].metadata.correct_count = 1
    /\ deck.cards[2].metadata.last_reviewed # None

\* C10: q at the rating prompt ends the session at once with a Summary. The
\* card q was entered on and the later cards of the order are as they were
\* when the session started (the file still holds that deck), and the Summary
\* counts exactly the ratings recorded before: attempted is the number of
\* ratings, correct the number of correct ones, the percentage 0 when
\* nothing was attempted.
C10_QuitSummary ==
    (run.pc = "returned" /\ Key = <<"q">>) =>
        LET start == from_str(file[1])
            attempted == TotalReviews(deck) - TotalReviews(start)
            correct == TotalCorrect(deck) - TotalCorrect(start)
        IN  /\ run.summary # None
            /\ run.summary[1].total = attempted
            /\ run.summary[1].correct = correct
            /\ attempted = run.quiz_count - 1
            /\ attempted = 0 => run.summary[1].percent = 0
            /\ \A k \in run.quiz_count..Len(run.cards) :
                  deck.cards[run.cards[k]] = start.cards[run.cards[k]]
            /\ deck.next_id = start.next_id
            /\ DOMAIN deck.cards = DOMAIN start.cards

\* two cards, the first rated w, q on the second: 0 correct of 1 attempted
C10_Witness ==
    /\ run.pc = "returned"
    /\ Key = <<"q">>
    /\ Len(run.cards) = 2
    /\ run.summary = Some([total |-> 1, correct |-> 0, percent |-> 0])
    /\ deck.cards[run.cards[1]].metadata.difficulty = Hard
    /\ deck.cards[run.cards[2]].metadata.times_reviewed = 0

\* the rating key of the line read by the step
KeyRead == to_lowercase(trim(run'.input))

\* the card the session is at
Presented == run.cards[run.quiz_count]

\* C11: a rating of c calls update_card_difficulty(card, Easy, true), g
\* (card, Medium, true) and w (card, Hard, false), on the card being rated
\* and on the deck at once, in the step that reads the rating; c and g add 1
\* to the session's correct count and w does not.
C11_RatingUpdatesAtOnce ==
    [][(run.pc = "rate" /\ KeyRead \in {<<"c">>, <<"g">>, <<"w">>}) =>
        LET difficulty == CASE KeyRead = <<"c">> -> Easy
                            [] KeyRead = <<"g">> -> Medium
                            [] KeyRead = <<"w">> -> Hard
            correct == KeyRead # <<"w">>
            old == deck.cards[Presented].metadata
            upd == deck'.cards[Presented].metadata
        IN  /\ last'.op = "update_card_difficulty"
            /\ last'.card_id = Presented
            /\ last'.difficulty = difficulty
            /\ last'.correct = correct
            /\ upd.difficulty = difficulty
            /\ upd.times_reviewed = old.times_reviewed + 1
            /\ upd.correct_count = old.correct_count + (IF correct THEN 1 ELSE 0)
            /\ upd.last_reviewed = Some(last'.now)
            /\ \A i \in Cards \ {Presented} : deck'.cards[i] = deck.cards[i]
            /\ DOMAIN deck'.cards = Cards
            /\ run'.correct_count = run.correct_count + (IF correct THEN 1 ELSE 0)
            /\ file' = file]_vars

\* the second card of a session rated g (read as "G"), after a w on the
\* first: the deck in memory holds both ratings, the file neither
C11_Witness ==
    /\ run.pc = "returned"
    /\ Len(run.cards) = 2
    /\ Key = <<"g">>
    /\ run.correct_count = 1
    /\ deck.cards[run.cards[1]].metadata.difficulty = Hard
    /\ deck.cards[run.cards[2]].metadata.difficulty = Medium
    /\ deck.cards[run.cards[2]].metadata.correct_count = 1
    /\ TotalReviews(from_str(file[1])) = 0

\* C12: a rating input other than c, g, w, q (after trim and lowercase)
\* keeps the session at the rating prompt of the same card: deck, file,
\* position and counts are unchanged and no summary is printed, at every such
\* input, however many follow one another.
C12_InvalidRatingReprompts ==
    [][(run.pc = "rate" /\ KeyRead \notin {<<"c">>, <<"g">>, <<"w">>, <<"q">>}) =>
        /\ run'.pc = "rate"
        /\ run'.cards = run.cards
        /\ run'.quiz_count = run.quiz_count
        /\ run'.correct_count = run.correct_count
        /\ run'.summary = None
        /\ run'.saves = run.saves
        /\ deck' = deck
        /\ file' = file]_vars

\* the rating prompt of the second card after an invalid line (the reveal
\* prompt leaves "\n" in input, so another invalid line was read)
C12_Witness ==
    /\ run.pc = "rate"
    /\ run.quiz_count = 2
    /\ run.input = <<"x", "\n">>
    /\ run.correct_count = 1

\* C13: the quiz command on an empty deck ends the run at once with the
\* nothing-to-quiz message: no order is drawn, no card presented, no summary
\* printed, and deck and file are unchanged.
C13_EmptyDeckNoQuiz ==
    [][(run.pc = "loaded" /\ run.command = "quiz" /\ Cards = {}) =>
        /\ run'.pc = "exit"
        /\ run'.message = "No flashcards to quiz"
        /\ run'.cards = <<>>
        /\ run'.quiz_count = 0
        /\ run'.summary = None
        /\ run'.saves = 0
        /\ deck' = deck
        /\ file' = file]_vars

\* the quiz command on a deck file whose only card was deleted
C13_Witness ==
    /\ run.pc = "exit"
    /\ run.command = "quiz"
    /\ run.message = "No flashcards to quiz"
    /\ file # None
    /\ Cards = {}
    /\ deck.next_id = 2

\* C14: no save happens while a quiz session runs; when the session has
\* printed its summary (after the last card, or on q) the next step of the
\* run is one save_to_file call of main, which writes the deck in memory with
\* every rating of the session, and the run ends with exactly one save.
C14_OneSaveAfterQuiz ==
    /\ []((run.command = "quiz" /\ run.pc \in {"reveal", "rate", "returned"})
             => run.saves = 0)
    /\ []((run.command = "quiz" /\ run.pc = "exit" /\ run.summary # None)
             => run.saves = 1)
    /\ [][run.pc \in {"reveal", "rate"} => file' = file]_vars
    /\ [][run.pc = "returned" =>
            /\ run'.pc = "exit"
            /\ run'.saves = 1
            /\ deck' = deck
            /\ file' = Some(to_string_pretty(deck))
            /\ from_str(file'[1]) = deck
            /\ TotalReviews(from_str(file'[1])) - TotalReviews(from_str(file[1]))
                  = run.summary[1].total]_vars

\* a run ended after a session of one rating and q: the file holds the rating
C14_Witness ==
    /\ run.pc = "exit"
    /\ run.command = "quiz"
    /\ Key = <<"q">>
    /\ run.summary # None
    /\ run.summary[1].total = 1
    /\ run.saves = 1
    /\ TotalReviews(from_str(file[1])) = 1

\* the cards that are in the deck before and after the step
Staying == Cards \cap DOMAIN deck'.cards

\* correct_count of card i does not decrease in the step, and grows only by
\* 1 in an update_card_difficulty(i, _, true)
CorrectCountKept(i) ==
    LET old == deck.cards[i].metadata.correct_count
        upd == deck'.cards[i].metadata.correct_count
    IN  /\ upd >= old
        /\ upd > old => /\ upd = old + 1
                        /\ last'.op = "update_card_difficulty"
                        /\ last'.card_id = i
                        /\ last'.correct

\* C15 as claimed: across every operation, reset_all_stats included, the
\* correct_count of a card that stays in the deck does not decrease, and it
\* grows only through update_card_difficulty with correct = true.
C15_Original ==
    [][\A i \in Staying : CorrectCountKept(i)]_vars

\* C15, amended: reset_all_stats sets the correct_count of every card to 0;
\* across every other operation (add_card, delete_card of another card,
\* update_card_difficulty, save and load) the correct_count of a card that
\* stays in the deck does not decrease, and it grows only through
\* update_card_difficulty with correct = true, by 1.
C15_CorrectCountKeptButByReset ==
    [][\A i \in Staying :
          IF last'.op = "reset_all_stats"
          THEN deck'.cards[i].metadata.correct_count = 0
          ELSE CorrectCountKept(i)]_vars

\* a card rated correct in two sessions, loaded in between and after
C15_Witness ==
    /\ run.pc = "loaded"
    /\ last.op = "load_from_file"
    /\ \E i \in Cards : deck.cards[i].metadata.correct_count = 2

\* C16: in every reachable deck, and in every document save_to_file has
\* written, each key of the cards map is the id of the card stored under it
\* (in the document: the decimal text of that id).
C16_KeyIsId ==
    /\ \A i \in Cards : deck.cards[i].id = i
    /\ file # None =>
          \A m \in file[1].cards :
              /\ m[1] = u32_to_string(m[2].id)
              /\ ParseU32(m[1]) = m[2].id

\* a saved document of two cards, loaded again
C16_Witness ==
    /\ file # None
    /\ {m[1] : m \in file[1].cards} = {<<"1">>, <<"2">>}
    /\ last.op = "load_from_file"
    /\ Cards = {1, 2}

\* the session is between its first card and its summary
InSession == run.pc \in {"reveal", "rate"}

\* C17: a quiz session presents the ids of the order drawn once at its
\* start, in that order and each at most once; the id presented is in the
\* deck; and a session that reaches its summary without q on a deck of N
\* cards reports N attempted, every card reviewed exactly once more than at
\* the start of the session.
C17_OrderCapturedOnce ==
    /\ [](InSession =>
            /\ run.quiz_count \in 1..Len(run.cards)
            /\ Presented \in Cards
            /\ {run.cards[k] : k \in 1..Len(run.cards)} = Cards
            /\ \A j, k \in 1..Len(run.cards) : run.cards[j] = run.cards[k] => j = k)
    /\ [][InSession =>
            /\ run'.cards = run.cards
            /\ run'.quiz_count \in {run.quiz_count, run.quiz_count + 1}
            /\ run'.quiz_count = run.quiz_count + 1 =>
                  /\ run'.pc = "reveal"
                  /\ last'.op = "update_card_difficulty"
                  /\ last'.card_id = Presented
            /\ (run'.pc = "returned" /\ KeyRead # <<"q">>) =>
                  /\ run.quiz_count = Len(run.cards)
                  /\ last'.card_id = Presented]_vars
    /\ []((run.pc = "returned" /\ Key # <<"q">>) =>
            /\ run.summary # None
            /\ run.summary[1].total = Cardinality(Cards)
            /\ \A i \in Cards :
                  deck.cards[i].metadata.times_reviewed =
                      from_str(file[1]).cards[i].metadata.times_reviewed + 1)

\* a full session on two cards, presented newest first
C17_Witness ==
    /\ run.pc = "returned"
    /\ Key # <<"q">>
    /\ run.cards = <<2, 1>>
    /\ run.summary # None
    /\ run.summary[1].total = 2
    /\ \A i \in Cards : deck.cards[i].metadata.times_reviewed = 1

\* the counts print_quiz_summary is given if the session ends at this point
Attempted ==
    IF run.pc = "returned" THEN run.summary[1].total ELSE run.quiz_count - 1

Correct ==
    IF run.pc = "returned" THEN run.summary[1].correct ELSE run.correct_count

\* C18: at every point of a quiz session on a deck of N cards the counts the
\* summary would report satisfy correct <= attempted <= N; they start at 0
\* and grow only with a call of update_card_difficulty, attempted by 1 with
\* each call and correct by 1 with each call made with correct = true; so
\* at the summary the sum of times_reviewed over the deck has grown by
\* attempted and the sum of correct_count by correct.
C18_SummaryCounts ==
    /\ []((InSession \/ run.pc = "returned") =>
            /\ Correct <= Attempted
            /\ Attempted <= Cardinality(Cards)
            /\ Attempted = TotalReviews(deck) - TotalReviews(from_str(file[1]))
            /\ Correct = TotalCorrect(deck) - TotalCorrect(from_str(file[1])))
    /\ [][(run.pc = "loaded" /\ InSession') => Attempted' = 0 /\ Correct' = 0]_vars
    /\ [][InSession =>
            LET called == deck' # deck
            IN  /\ called <=> (run.pc = "rate" /\ KeyRead \in {<<"c">>, <<"g">>, <<"w">>})
                /\ called => last'.op = "update_card_difficulty"
                /\ Attempted' = Attempted + (IF called THEN 1 ELSE 0)
                /\ Correct' = Correct + (IF called /\ last'.correct THEN 1 ELSE 0)]_vars

\* the summary of a full session on two cards, one rated g and one w
C18_Witness ==
    /\ run.pc = "returned"
    /\ Cardinality(Cards) = 2
    /\ Attempted = 2
    /\ Correct = 1
    /\ \E i \in Cards : deck.cards[i].metadata.difficulty = Medium
                        /\ deck.cards[i].metadata.correct_count = 1
    /\ \E i \in Cards : deck.cards[i].metadata.difficulty = Hard

\* C19: a quiz session on a non-empty deck eventually reaches its summary
\* (after the last card or after q) when every reveal prompt receives a line
\* and every rating prompt eventually receives one of c, g, w, q; at every
\* rating prompt a line that is none of them can be read, and it leaves the
\* session at the rating prompt of the same card.
C19_SessionEnds ==
    /\ InSession ~> (run.pc = "returned" /\ run.summary # None)
    /\ [](run.pc = "rate" => ENABLED StayInRating)
    /\ [][(run.pc = "rate" /\ StayInRating) =>
            run'.pc = "rate" /\ Presented' = Presented]_vars

\* the rating prompt of the second card after a line that is no rating
C19_Witness ==
    /\ run.pc = "rate"
    /\ run.quiz_count = 2
    /\ Key = <<"x">>

\* C20: in every state of a deck that starts from new() and is changed by
\* add_card, delete_card, update_card_difficulty, reset_all_stats and
\* save/load, a card's last_reviewed is absent exactly when its
\* times_reviewed is 0; the same holds of the deck a saved document loads as.
C20_LastReviewedIffReviewed ==
    /\ \A i \in Cards :
          (deck.cards[i].metadata.last_reviewed = None)
              <=> (deck.cards[i].metadata.times_reviewed = 0)
    /\ file # None =>
          \A i \in DOMAIN from_str(file[1]).cards :
              (from_str(file[1]).cards[i].metadata.last_reviewed = None)
                  <=> (from_str(file[1]).cards[i].metadata.times_reviewed = 0)

\* a loaded deck of a card reviewed on a date and a card never reviewed
C20_Witness ==
    /\ last.op = "load_from_file"
    /\ \E i, j \in Cards :
          /\ deck.cards[i].metadata.times_reviewed = 1
          /\ deck.cards[i].metadata.last_reviewed = Some("2026-11-06")
          /\ deck.cards[j].metadata.times_reviewed = 0
          /\ deck.cards[j].metadata.last_reviewed = None

====
